---- MODULE Spec2Model ----
(***************************************************************************)
(* TlsTransport (src/src/impl/tlstransport.cpp): the TLS link of the       *)
(* transport chain, in its three backend variants (GnuTLS, MbedTLS,        *)
(* OpenSSL).  One record per transport instance holds the fields of the    *)
(* object; the operations of the class are operators from an instance      *)
(* record to an instance record, and the actions apply them.               *)
(*                                                                         *)
(* A message is a sequence of bytes.  A message_ptr is a sequence of at    *)
(* most one message: <<>> is the null pointer, <<m>> points to m.          *)
(* Bytes on the wire: 0 is a handshake byte, 9 the close-notify alert,     *)
(* 8 a corrupt byte, and the record carrying the plaintext byte p is the   *)
(* two bytes 10+p, 20+p.                                                   *)
(***************************************************************************)
EXTENDS Integers, Sequences, FiniteSets, TLC

VARIABLES backend, inst, wpc, wire, env

vars == <<backend, inst, wpc, wire, env>>

(* ------------------------------------------------------------------ *)
(* Bounds of the model                                                  *)
(* ------------------------------------------------------------------ *)

\* the largest chunk the lower transport delivers in one incoming() call
MaxChunk == 2
\* the number of stop() calls made on the instance
MaxStops == 2
\* the byte limit of the incoming queue
RECV_QUEUE_LIMIT == 5
\* the number of callers that can be inside enqueueRecv at once
MaxCallers == 2

Backends == {"gnutls", "mbedtls", "openssl"}
Inst == {"c", "s"}
Workers == {1, 2}
Payloads == {1, 2}

(* ------------------------------------------------------------------ *)
(* Messages and the TLS wire format                                     *)
(* ------------------------------------------------------------------ *)

Null == <<>>
Some(m) == <<m>>

\* F applied to the value of v, which is computed once
Let1(v, F(_)) == CHOOSE y \in {F(x) : x \in {v}} : TRUE

\* gnutls_record_send / mbedtls_ssl_write / SSL_write: one plaintext byte
\* becomes one two-byte record
Encode(p) == <<10 + p, 20 + p>>

IsHandshakeByte(b) == b = 0
IsCloseNotify(b) == b = 9
IsRecordHead(b) == b - 10 \in Payloads
IsRecordTail(b, p) == b = 20 + p

\* the number of handshake bytes an endpoint consumes before the handshake
\* is complete
HsLen == 2

(* ------------------------------------------------------------------ *)
(* Transport base class and Queue                                       *)
(* ------------------------------------------------------------------ *)

\* Transport::changeState: the observer is notified once per transition
changeState(s, new) ==
    IF s.state = new THEN s
    ELSE [s EXCEPT !.state = new, !.notified = Append(@, new)]

\* Transport::recv: deliver upward
recv(s, mp) == [s EXCEPT !.up = Append(@, mp)]

\* Transport::registerIncoming: the lower transport delivers to incoming()
registerIncoming(s) == [s EXCEPT !.registered = TRUE]

\* Transport::unregisterIncoming
unregisterIncoming(s) == [s EXCEPT !.registered = FALSE]

\* Transport::outgoing: hand to the lower transport
outgoing(s, mp) == [s EXCEPT !.out = Append(@, mp)]

RECURSIVE SumLen(_)
SumLen(q) == IF q = <<>> THEN 0 ELSE Len(Head(q)) + SumLen(Tail(q))

\* Queue::amount with message_size_func
QueueAmount(s) == SumLen(s.mIncomingQueue)

\* Queue::push blocks while the buffered size is at the limit
QueueFull(s) == QueueAmount(s) >= s.limit

\* Queue::push on a queue that does not block: a stopped queue accepts nothing
QueuePush(s, m) ==
    IF s.qStopped THEN s
    ELSE [s EXCEPT !.mIncomingQueue = Append(@, m)]

\* Queue::stop
QueueStop(s) == [s EXCEPT !.qStopped = TRUE]

\* Queue::running: buffers already queued are still delivered until drained,
\* after which consumers observe closure
QueueRunning(s) == s.mIncomingQueue # <<>> \/ ~s.qStopped

(* ------------------------------------------------------------------ *)
(* The instance after construction                                      *)
(* ------------------------------------------------------------------ *)

mIncomingQueueLimit_none == RECV_QUEUE_LIMIT + 100

\* TlsTransport::TlsTransport: the queue is built with RECV_QUEUE_LIMIT and
\* message_size_func
mIncomingQueueLimit == RECV_QUEUE_LIMIT

InitInst(role) ==
    [ mIsClient |-> (role = "c"),
      state |-> "Disconnected",
      notified |-> <<>>,
      registered |-> FALSE,
      startPc |-> "none",
      mPendingRecvCount |-> 0,
      enqInc |-> 0,
      tasks |-> 0,
      mRecvMutex |-> 0,
      limit |-> mIncomingQueueLimit,
      mIncomingQueue |-> <<>>,
      qStopped |-> FALSE,
      refused |-> 0,
      mIncomingMessage |-> Null,
      mIncomingMessagePosition |-> 0,
      mInBio |-> <<>>,
      mOutBio |-> <<>>,
      hsSent |-> FALSE,
      hsIn |-> 0,
      recPart |-> 0,
      closeSent |-> FALSE,
      fedEmpty |-> FALSE,
      fed |-> <<>>,
      sawEof |-> FALSE,
      up |-> <<>>,
      out |-> <<>>,
      sendCalls |-> 0,
      sendThrows |-> 0,
      sendMsg |-> Null,
      owners |-> 1,
      destroyed |-> FALSE ]

(* ------------------------------------------------------------------ *)
(* enqueueRecv                                                          *)
(* ------------------------------------------------------------------ *)

UseCount_raw(s) == s.owners

\* the use count of the instance: its owner, the callers of enqueueRecv that
\* hold shared_this, the tasks the thread pool holds (shared_this is moved
\* into the task) and the task that is executing
UseCount(s) ==
    s.owners + s.enqInc + s.tasks + (IF s.mRecvMutex # 0 THEN 1 ELSE 0)

\* enqueueRecv, the test: a caller that finds the counter at 0 and whose
\* weak_from_this().lock() succeeds goes on; enqInc counts the callers
\* between the test and the increment
EnqueueRecvCheck(s) ==
    IF s.mPendingRecvCount > 0 THEN s
    ELSE IF UseCount(s) = 0 THEN s
    ELSE [s EXCEPT !.enqInc = @ + 1]

\* enqueueRecv, the increment and the hand-over to the thread pool
EnqueueRecvCommit(s) ==
    [s EXCEPT !.enqInc = @ - 1,
              !.mPendingRecvCount = @ + 1,
              !.tasks = @ + 1]

(* ------------------------------------------------------------------ *)
(* The backend callbacks                                                *)
(* ------------------------------------------------------------------ *)

Min(a, b) == IF a < b THEN a ELSE b

PopLoop_drop(s) == [s EXCEPT !.mIncomingQueue = <<>>]

PopLoop_keep(s) ==
    IF s.mIncomingQueue = <<>> THEN s
    ELSE [s EXCEPT !.mIncomingMessage = Some(Head(s.mIncomingQueue))]

\* the pop loop of ReadCallback: zero-sized messages are passed upward, the
\* first non-empty one becomes the current message; the current message is
\* assigned before its size is tested
RECURSIVE PopLoop(_)
PopLoop(s) ==
    IF s.mIncomingQueue = <<>> THEN s
    ELSE LET m == Head(s.mIncomingQueue)
             s1 == [s EXCEPT !.mIncomingQueue = Tail(@),
                             !.mIncomingMessage = Some(m)]
         IN IF Len(m) > 0 THEN s1 ELSE PopLoop(recv(s1, Some(m)))

\* the cursor step of ReadCallback: position += len
AdvancePosition(pos, len) == pos + len

\* TlsTransport::ReadCallback (GnuTLS, MbedTLS).  ret is "LEN" with the bytes
\* copied (none: the callback returns 0, which the engine reads as end of
\* input), "AGAIN" or "EOF"
ReadCallback(s, maxlen) ==
    Let1(IF s.mIncomingMessage # Null
            /\ s.mIncomingMessagePosition >= Len(s.mIncomingMessage[1])
         THEN PopLoop([s EXCEPT !.mIncomingMessage = Null,
                                !.mIncomingMessagePosition = 0])
         ELSE IF s.mIncomingMessage = Null
         THEN PopLoop([s EXCEPT !.mIncomingMessagePosition = 0])
         ELSE s,
         LAMBDA s2 :
            IF s2.mIncomingMessage # Null
            THEN LET m == s2.mIncomingMessage[1]
                     position == s2.mIncomingMessagePosition
                     len == Min(maxlen, Len(m) - position)
                 IN [s |-> [s2 EXCEPT !.mIncomingMessagePosition = AdvancePosition(@, len),
                                      !.fedEmpty = @ \/ Len(m) = 0,
                                      !.fed = @ \o SubSeq(m, position + 1, position + len)],
                     ret |-> "LEN",
                     bytes |-> SubSeq(m, position + 1, position + len)]
            ELSE IF QueueRunning(s2)
                 THEN [s |-> s2, ret |-> "AGAIN", bytes |-> <<>>]
                 ELSE [s |-> [s2 EXCEPT !.sawEof = TRUE], ret |-> "EOF", bytes |-> <<>>])

\* the read side of mInBio (OpenSSL): an empty memory BIO asks for a retry
BioRead(s, maxlen) ==
    IF s.mInBio = <<>>
    THEN [s |-> s, ret |-> "AGAIN", bytes |-> <<>>]
    ELSE LET len == Min(maxlen, Len(s.mInBio))
         IN [s |-> [s EXCEPT !.mInBio = SubSeq(@, len + 1, Len(@)),
                             !.fed = @ \o SubSeq(s.mInBio, 1, len)],
             ret |-> "LEN",
             bytes |-> SubSeq(s.mInBio, 1, len)]

\* the engine's pull primitive
Pull(b, s, maxlen) ==
    IF b = "openssl" THEN BioRead(s, maxlen) ELSE ReadCallback(s, maxlen)

\* TlsTransport::WriteCallback (GnuTLS, MbedTLS); with OpenSSL the engine
\* writes into mOutBio
EnginePush(b, s, bytes) ==
    IF b = "openssl" THEN [s EXCEPT !.mOutBio = @ \o bytes]
    ELSE IF b = "gnutls" /\ Len(bytes) = 0 THEN s
    ELSE outgoing(s, Some(bytes))

\* TlsTransport::flushOutput (OpenSSL)
flushOutput(s) ==
    IF s.mOutBio = <<>> THEN s
    ELSE outgoing([s EXCEPT !.mOutBio = <<>>], Some(s.mOutBio))

(* ------------------------------------------------------------------ *)
(* The TLS engine, as the transport drives it                           *)
(* ------------------------------------------------------------------ *)

AllHandshake(bytes) == \A i \in 1..Len(bytes) : IsHandshakeByte(bytes[i])

\* the flights of the handshake: the client opens with one byte and closes
\* with one byte once it has read HsLen bytes; the server answers the first
\* byte it reads with HsLen bytes
ClientHello == <<0>>
ServerHello == <<0, 0>>
Finished == <<0>>

\* gnutls_handshake / mbedtls_ssl_handshake / SSL_do_handshake: one call.
\* ret is "AGAIN" (would block), "OK" (complete) or "FATAL"
RECURSIVE Handshake(_, _)
Handshake(b, s) ==
    Let1(IF s.mIsClient /\ ~s.hsSent
         THEN EnginePush(b, [s EXCEPT !.hsSent = TRUE], ClientHello)
         ELSE s,
         LAMBDA s1 :
            IF s1.hsIn >= HsLen THEN [s |-> s1, ret |-> "OK"]
            ELSE Let1(Pull(b, s1, HsLen - s1.hsIn),
                      LAMBDA r :
    IF r.ret = "AGAIN" THEN [s |-> r.s, ret |-> "AGAIN"]
    ELSE IF r.ret = "EOF" \/ r.bytes = <<>> \/ ~AllHandshake(r.bytes)
    THEN [s |-> r.s, ret |-> "FATAL"]
    ELSE LET n == r.s.hsIn + Len(r.bytes)
             answer == ~r.s.mIsClient /\ ~r.s.hsSent
             s2 == [r.s EXCEPT !.hsIn = n, !.hsSent = @ \/ answer]
         IN Handshake(b,
                IF answer THEN EnginePush(b, s2, ServerHello)
                ELSE IF s2.mIsClient /\ n >= HsLen THEN EnginePush(b, s2, Finished)
                ELSE s2)))

\* gnutls_record_recv / mbedtls_ssl_read / SSL_read: one call.  ret is
\* "AGAIN", "DATA" (p is the plaintext byte), "CLOSED" (close-notify),
\* "EOF" (the input ended) or "FATAL"
RECURSIVE RecordRecv(_, _)
RecordRecv(b, s) ==
    Let1(Pull(b, s, IF s.recPart = 0 THEN 2 ELSE 1),
         LAMBDA r :
    IF r.ret = "AGAIN" THEN [s |-> r.s, ret |-> "AGAIN", p |-> 0]
    ELSE IF r.ret = "EOF" \/ r.bytes = <<>>
    THEN [s |-> r.s, ret |-> "EOF", p |-> 0]
    ELSE IF r.s.recPart = 0
    THEN LET h == r.bytes[1]
         IN IF IsCloseNotify(h) THEN [s |-> r.s, ret |-> "CLOSED", p |-> 0]
            ELSE IF ~IsRecordHead(h) THEN [s |-> r.s, ret |-> "FATAL", p |-> 0]
            ELSE IF Len(r.bytes) = 1
            THEN RecordRecv(b, [r.s EXCEPT !.recPart = h - 10])
            ELSE IF IsRecordTail(r.bytes[2], h - 10)
            THEN [s |-> r.s, ret |-> "DATA", p |-> h - 10]
            ELSE [s |-> r.s, ret |-> "FATAL", p |-> 0]
    ELSE IF IsRecordTail(r.bytes[1], r.s.recPart)
    THEN [s |-> [r.s EXCEPT !.recPart = 0], ret |-> "DATA", p |-> r.s.recPart]
    ELSE [s |-> r.s, ret |-> "FATAL", p |-> 0])

\* gnutls_record_send / mbedtls_ssl_write / SSL_write of a plaintext message:
\* each byte becomes a record
RECURSIVE EncodeAll(_)
EncodeAll(m) == IF m = <<>> THEN <<>> ELSE Encode(Head(m)) \o EncodeAll(Tail(m))

\* gnutls_bye(GNUTLS_SHUT_WR): a close-notify goes out, once, if the session
\* is established; SSL_shutdown is quiet (SSL_CTX_set_quiet_shutdown)
CloseNotify(b, s) ==
    IF b = "gnutls" /\ s.hsIn >= HsLen /\ ~s.closeSent
    THEN EnginePush(b, [s EXCEPT !.closeSent = TRUE], <<9>>)
    ELSE s

(* ------------------------------------------------------------------ *)
(* The public operations                                                *)
(* ------------------------------------------------------------------ *)

\* TlsTransport::start, its first statement: registerIncoming().  From here
\* on the lower transport may call incoming()
startRegister(s) == registerIncoming([s EXCEPT !.startPc = "reg"])

\* TlsTransport::start after registerIncoming(): changeState(Connecting),
\* then GnuTLS and MbedTLS schedule the Receive Task to initiate the
\* handshake, and OpenSSL enters SSL_do_handshake on the caller's thread
\* (startPc = "hs" until StartHandshake has run)
start(b, s) ==
    LET s1 == changeState(s, "Connecting")
    IN IF b = "openssl" THEN [s1 EXCEPT !.startPc = "hs"]
       ELSE EnqueueRecvCheck([s1 EXCEPT !.startPc = "done"])

\* TlsTransport::start (OpenSSL), the rest: SSL_do_handshake, flushOutput
startHandshake(b, s) ==
    flushOutput(Handshake(b, [s EXCEPT !.startPc = "done"]).s)

stop_unscheduled(s) == QueueStop(unregisterIncoming(s))

\* TlsTransport::stop
stop(s) == EnqueueRecvCheck(QueueStop(unregisterIncoming(s)))

SendAllowed_connecting(s) == s.state \in {"Connecting", "Connected"}

\* the state test that opens TlsTransport::send
SendAllowed(s) == s.state = "Connected"

\* TlsTransport::send up to the call of the engine: the state test, the
\* pass-through of a null or empty message, and the entry into
\* gnutls_record_send / mbedtls_ssl_write / SSL_write (sendMsg is the message
\* being written)
send(b, s, mp) ==
    Let1([s EXCEPT !.sendCalls = @ + 1],
         LAMBDA s0 :
            IF ~SendAllowed(s0) THEN [s0 EXCEPT !.sendThrows = @ + 1]
            ELSE IF mp = Null \/ Len(mp[1]) = 0 THEN outgoing(s0, mp)
            ELSE [s0 EXCEPT !.sendMsg = mp])

\* TlsTransport::send, the rest: the engine writes the records and send
\* returns (OpenSSL: after flushOutput)
sendWrite(b, s) ==
    Let1([s EXCEPT !.sendMsg = Null],
         LAMBDA s0 :
            IF b = "openssl"
            THEN flushOutput(EnginePush(b, s0, EncodeAll(s.sendMsg[1])))
            ELSE EnginePush(b, s0, EncodeAll(s.sendMsg[1])))

\* TlsTransport::incoming
incoming(s, mp) ==
    IF mp = Null THEN EnqueueRecvCheck(QueueStop(s))
    ELSE EnqueueRecvCheck(
             IF s.qStopped THEN [s EXCEPT !.refused = @ + 1]
             ELSE QueuePush(s, mp[1]))

\* TlsTransport::~TlsTransport: GnuTLS and OpenSSL call stop(), MbedTLS does
\* nothing
Destructor(b, s) ==
    [(IF b = "mbedtls" THEN s ELSE stop(s)) EXCEPT !.destroyed = TRUE]

\* a shared_ptr to the instance is dropped: the last one runs the destructor
Unref(b, s) ==
    IF UseCount(s) = 0 /\ ~s.destroyed THEN Destructor(b, s) ELSE s

(* ------------------------------------------------------------------ *)
(* doRecv, the Receive Task                                             *)
(* ------------------------------------------------------------------ *)

MutexFree_absent(s) == TRUE

\* std::lock_guard lock(mRecvMutex): the task body starts once the mutex is free
MutexFree(s) == s.mRecvMutex = 0

\* the end of a doRecv execution: the lock_guard releases the mutex
Return(s) == [s EXCEPT !.mRecvMutex = 0]

WouldBlock_finish(s) ==
    [s |-> Return(IF s.state = "Connected"
                  THEN recv(changeState(s, "Disconnected"), Null)
                  ELSE changeState(s, "Failed")),
     pc |-> "idle"]

\* doRecv, `return` on WouldBlock: the task ends, the lock_guard releases
WouldBlock(s) == [s |-> Return(s), pc |-> "idle"]

\* the state guard that opens doRecv (MbedTLS, OpenSSL; the GnuTLS variant has
\* none): TRUE when the task returns at once
StateGuard(b, s) ==
    b # "gnutls" /\ s.state # "Connecting" /\ s.state # "Connected"

\* doRecv, entry: lock, --mPendingRecvCount, and the tests that choose the
\* phase.  The result is the instance and the position of the task
doRecvEnter(b, s, w) ==
    Let1([s EXCEPT !.tasks = @ - 1,
                   !.mRecvMutex = w,
                   !.mPendingRecvCount = @ - 1],
         LAMBDA s1 :
            IF StateGuard(b, s1) THEN [s |-> Return(s1), pc |-> "idle"]
            ELSE IF b = "openssl" THEN [s |-> s1, pc |-> "loop"]
            ELSE IF s1.state = "Connecting" THEN [s |-> s1, pc |-> "hs"]
            ELSE IF s1.state = "Connected" THEN [s |-> s1, pc |-> "rd"]
            ELSE [s |-> s1, pc |-> "fin"])

\* doRecv (GnuTLS, MbedTLS): one call of the handshake
doRecvHandshake(b, s) ==
    Let1(Handshake(b, s),
         LAMBDA r :
            IF r.ret = "AGAIN" THEN WouldBlock(r.s)
            ELSE IF r.ret = "FATAL" THEN [s |-> r.s, pc |-> "fin"]
            ELSE Let1(changeState(r.s, "Connected"),
                      LAMBDA s1 : [s |-> s1,
                                   pc |-> IF s1.state = "Connected" THEN "rd" ELSE "fin"]))

\* doRecv (GnuTLS, MbedTLS): one turn of the record loop
doRecvRecord(b, s) ==
    Let1(RecordRecv(b, s),
         LAMBDA r :
            IF r.ret = "AGAIN" THEN WouldBlock(r.s)
            ELSE IF r.ret = "DATA" THEN [s |-> recv(r.s, Some(<<r.p>>)), pc |-> "rd"]
            ELSE [s |-> r.s, pc |-> "fin"])

\* TlsTransport::InfoCallback (OpenSSL): an alert stops the queue
InfoCallback(s) == QueueStop(s)

\* doRecv (OpenSSL): the SSL_read loop and the check of its last result.
\* brk is TRUE when the queue loop is left
RECURSIVE SslReadAll(_, _)
SslReadAll(b, s) ==
    Let1(RecordRecv(b, s),
         LAMBDA r :
            IF r.ret = "DATA" THEN SslReadAll(b, recv(r.s, Some(<<r.p>>)))
            ELSE IF r.ret = "AGAIN" THEN [s |-> r.s, brk |-> FALSE]
            ELSE [s |-> InfoCallback(r.s), brk |-> TRUE])

\* doRecv (OpenSSL), a turn of the queue loop after the handshake step h:
\* flushOutput, the test of SSL_is_init_finished, and the reads
doRecvLoopRead(b, h) ==
    IF h.ret = "FATAL" THEN [s |-> InfoCallback(h.s), pc |-> "fin"]
    ELSE Let1(IF h.ret = "NONE" THEN h.s
              ELSE IF h.ret = "OK" THEN changeState(flushOutput(h.s), "Connected")
              ELSE flushOutput(h.s),
              LAMBDA s3 :
                 IF s3.state = "Connected"
                 THEN Let1(SslReadAll(b, s3),
                           LAMBDA rd : [s |-> rd.s,
                                        pc |-> IF rd.brk THEN "fin" ELSE "loop"])
                 ELSE [s |-> s3, pc |-> "loop"])

\* doRecv (OpenSSL): one turn of the queue loop
doRecvLoop(b, s) ==
    IF ~QueueRunning(s) THEN [s |-> [s EXCEPT !.sawEof = TRUE], pc |-> "fin"]
    ELSE IF s.mIncomingQueue = <<>> THEN WouldBlock(s)
    ELSE Let1(IF Len(Head(s.mIncomingQueue)) > 0
              THEN [s EXCEPT !.mIncomingQueue = Tail(@),
                             !.mInBio = @ \o Head(s.mIncomingQueue)]
              ELSE recv([s EXCEPT !.mIncomingQueue = Tail(@)],
                        Some(Head(s.mIncomingQueue))),
              LAMBDA s1 :
                 Let1(IF s1.state = "Connecting" THEN Handshake(b, s1)
                      ELSE [s |-> s1, ret |-> "NONE"],
                      LAMBDA h : doRecvLoopRead(b, h)))

\* doRecv, the terminal resolution: Disconnected and end-of-stream if the
\* state is Connected, Failed otherwise
Resolve(s) ==
    IF s.state = "Connected"
    THEN recv(changeState(s, "Disconnected"), Null)
    ELSE changeState(s, "Failed")

\* doRecv, the end: close-notify (GnuTLS, OpenSSL), terminal resolution
doRecvFinish(b, s) ==
    Return(Resolve(IF b = "mbedtls" THEN s ELSE CloseNotify(b, s)))

(* ------------------------------------------------------------------ *)
(* One instance, driven by its lower transport and its owner            *)
(* ------------------------------------------------------------------ *)

\* what the lower transport will deliver: a handshake and two records; a
\* handshake and a close-notify; a corrupt handshake; a handshake and a
\* corrupt record
ValidWire == <<0, 0, 11, 21, 12, 22>>
ClosingWire == <<0, 0, 9>>
BadHandshakeWire == <<0, 8>>
BadRecordWire == <<0, 0, 8>>
Scripts == { ValidWire, ClosingWire, BadHandshakeWire, BadRecordWire }

\* what happens in a run besides start(), incoming() and stop(): the owner
\* calls send(), the lower transport delivers a zero-length buffer, or the
\* owner drops its reference to the instance
Extras == { "send", "empty", "release" }

Idle == [t |-> "c", pc |-> "idle"]

InitEnv(paired) ==
    [ paired |-> paired, script |-> <<>>, extra |-> "send", stops |-> 0,
      closed |-> FALSE, closedConnected |-> FALSE,
      empties |-> 0, delivered |-> [t \in Inst |-> 0] ]

Init ==
    /\ backend \in Backends
    /\ inst = [t \in Inst |-> InitInst(t)]
    /\ wpc = [w \in Workers |-> Idle]
    /\ wire \in Scripts
    /\ env \in {[InitEnv(FALSE) EXCEPT !.script = wire, !.extra = x] : x \in Extras}

Started(s) == s.startPc # "none"

\* a caller may enter enqueueRecv
CallerFree(s) == s.enqInc < MaxCallers

\* Queue::push returns: there is room, or the queue is stopped
PushReturns(s) == ~QueueFull(s) \/ s.qStopped

\* the owner calls start(): registerIncoming()
Start(t) ==
    /\ ~Started(inst[t])
    /\ inst[t].owners > 0
    /\ inst' = [inst EXCEPT ![t] = startRegister(@)]
    /\ UNCHANGED <<backend, wpc, wire, env>>

\* start() goes on: changeState(Connecting) and the initiation of the handshake
StartConnecting(t) ==
    /\ inst[t].startPc = "reg"
    /\ CallerFree(inst[t])
    /\ inst' = [inst EXCEPT ![t] = start(backend, @)]
    /\ UNCHANGED <<backend, wpc, wire, env>>

StartHandshake(t) ==
    /\ inst[t].startPc = "hs"
    /\ inst' = [inst EXCEPT ![t] = startHandshake(backend, @)]
    /\ UNCHANGED <<backend, wpc, wire, env>>

EnqueueRecv(t) ==
    /\ inst[t].enqInc > 0
    /\ inst' = [inst EXCEPT ![t] = EnqueueRecvCommit(@)]
    /\ UNCHANGED <<backend, wpc, wire, env>>

\* the owner calls stop(), after start() has returned
Stop(t) ==
    /\ inst[t].startPc = "done"
    /\ inst[t].owners > 0
    /\ CallerFree(inst[t])
    /\ env.stops < MaxStops
    /\ inst' = [inst EXCEPT ![t] = stop(@)]
    /\ env' = [env EXCEPT !.stops = @ + 1]
    /\ UNCHANGED <<backend, wpc, wire>>

\* the owner calls send(), once
Send(t) ==
    /\ env.extra = "send"
    /\ inst[t].sendCalls = 0
    /\ inst[t].owners > 0
    /\ \E mp \in {Null, Some(<<>>), Some(<<1>>)} :
          inst' = [inst EXCEPT ![t] = send(backend, @, mp)]
    /\ UNCHANGED <<backend, wpc, wire, env>>

\* the engine call of send() completes and send() returns
SendWrite(t) ==
    /\ inst[t].sendMsg # Null
    /\ inst' = [inst EXCEPT ![t] = sendWrite(backend, @)]
    /\ UNCHANGED <<backend, wpc, wire, env>>

\* the lower transport delivers the next bytes of the wire
IncomingData(t) ==
    /\ inst[t].registered
    /\ ~inst[t].destroyed
    /\ CallerFree(inst[t])
    /\ ~env.closed
    /\ PushReturns(inst[t])
    /\ \E n \in 1..Min(MaxChunk, Len(wire)) :
          /\ inst' = [inst EXCEPT ![t] = incoming(@, Some(SubSeq(wire, 1, n)))]
          /\ wire' = SubSeq(wire, n + 1, Len(wire))
    /\ UNCHANGED <<backend, wpc, env>>

\* the lower transport delivers a zero-length buffer, once
IncomingEmpty(t) ==
    /\ inst[t].registered
    /\ ~inst[t].destroyed
    /\ CallerFree(inst[t])
    /\ ~env.closed
    /\ env.extra = "empty"
    /\ env.empties = 0
    /\ PushReturns(inst[t])
    /\ inst' = [inst EXCEPT ![t] = incoming(@, Some(<<>>))]
    /\ env' = [env EXCEPT !.empties = @ + 1]
    /\ UNCHANGED <<backend, wpc, wire>>

\* the lower transport delivers closed
IncomingClosed(t) ==
    /\ inst[t].registered
    /\ ~inst[t].destroyed
    /\ CallerFree(inst[t])
    /\ ~env.closed
    /\ inst' = [inst EXCEPT ![t] = incoming(@, Null)]
    /\ env' = [env EXCEPT !.closed = TRUE,
                          !.closedConnected = (inst[t].state = "Connected")]
    /\ UNCHANGED <<backend, wpc, wire>>

\* the owner drops its shared_ptr, outside of any call on the instance
Release(t) ==
    /\ env.extra = "release"
    /\ inst[t].owners > 0
    /\ inst[t].startPc \in {"none", "done"}
    /\ inst' = [inst EXCEPT ![t] = Unref(backend, [@ EXCEPT !.owners = 0])]
    /\ UNCHANGED <<backend, wpc, wire, env>>

\* ThreadPool: a task goes to the first worker that is idle
FirstIdle(w) ==
    /\ wpc[w].pc = "idle"
    /\ \A v \in Workers : wpc[v].pc = "idle" => ~(v < w)

\* a worker of the thread pool takes a task of t and enters doRecv
DoRecvEnter(w, t) ==
    /\ FirstIdle(w)
    /\ inst[t].tasks > 0
    /\ MutexFree(inst[t])
    /\ \E r \in {doRecvEnter(backend, inst[t], w)} :
          /\ inst' = [inst EXCEPT ![t] = IF r.pc = "idle" THEN Unref(backend, r.s)
                                         ELSE r.s]
          /\ wpc' = [wpc EXCEPT ![w] = IF r.pc = "idle" THEN Idle
                                       ELSE [t |-> t, pc |-> r.pc]]
    /\ UNCHANGED <<backend, wire, env>>

\* the task of worker w goes on to the instance and the position of res
Step(w, res) ==
    \E r \in {res} :
        /\ inst' = [inst EXCEPT ![wpc[w].t] = IF r.pc = "idle" THEN Unref(backend, r.s)
                                                ELSE r.s]
        /\ wpc' = [wpc EXCEPT ![w] = IF r.pc = "idle" THEN Idle
                                     ELSE [t |-> wpc[w].t, pc |-> r.pc]]
        /\ UNCHANGED <<backend, wire, env>>

DoRecvHandshake(w) ==
    /\ wpc[w].pc = "hs"
    /\ Step(w, doRecvHandshake(backend, inst[wpc[w].t]))

DoRecvRecord(w) ==
    /\ wpc[w].pc = "rd"
    /\ Step(w, doRecvRecord(backend, inst[wpc[w].t]))

DoRecvLoop(w) ==
    /\ wpc[w].pc = "loop"
    /\ Step(w, doRecvLoop(backend, inst[wpc[w].t]))

DoRecvFinish(w) ==
    /\ wpc[w].pc = "fin"
    /\ Step(w, [s |-> doRecvFinish(backend, inst[wpc[w].t]), pc |-> "idle"])

Worker(t) ==
    \E w \in Workers :
        \/ DoRecvEnter(w, t)
        \/ (wpc[w].t = t /\ DoRecvHandshake(w))
        \/ (wpc[w].t = t /\ DoRecvRecord(w))
        \/ (wpc[w].t = t /\ DoRecvLoop(w))
        \/ (wpc[w].t = t /\ DoRecvFinish(w))

Next ==
    \/ Start("c")
    \/ StartConnecting("c")
    \/ StartHandshake("c")
    \/ EnqueueRecv("c")
    \/ Stop("c")
    \/ Send("c")
    \/ SendWrite("c")
    \/ IncomingData("c")
    \/ IncomingEmpty("c")
    \/ IncomingClosed("c")
    \/ Release("c")
    \/ Worker("c")

Spec == Init /\ [][Next]_vars

\* the steps the threads take on their own: the thread pool runs the tasks
\* it holds, and a caller inside enqueueRecv goes on to the increment
Progress == Worker("c") \/ EnqueueRecv("c")

\* a fair worker pool, and callers that are not suspended for ever
FairWorkers == WF_vars(Progress)

\* what the lower transport will deliver to an instance that is stopped: a
\* handshake and a record, a handshake and a close-notify, or a corrupt
\* handshake
OneRecordWire == <<0, 0, 11, 21>>
StopScripts == { OneRecordWire, ClosingWire, BadHandshakeWire }

\* an owner that starts the instance, stops it, and may drop its reference
InitStop ==
    /\ backend \in Backends
    /\ inst = [t \in Inst |-> InitInst(t)]
    /\ wpc = [w \in Workers |-> Idle]
    /\ wire \in StopScripts
    /\ env = [InitEnv(FALSE) EXCEPT !.script = wire, !.extra = "release"]

NextStop ==
    \/ Start("c")
    \/ StartConnecting("c")
    \/ StartHandshake("c")
    \/ EnqueueRecv("c")
    \/ Stop("c")
    \/ IncomingData("c")
    \/ IncomingClosed("c")
    \/ Release("c")
    \/ Worker("c")

SpecFair == InitStop /\ [][NextStop]_vars /\ FairWorkers

(* ------------------------------------------------------------------ *)
(* A client and a server joined by a reliable in-order pipe             *)
(* ------------------------------------------------------------------ *)

InitPair ==
    /\ backend \in Backends
    /\ inst = [t \in Inst |-> InitInst(t)]
    /\ wpc = [w \in Workers |-> Idle]
    /\ wire = <<>>
    /\ env = InitEnv(TRUE)

\* the pipe hands the next message `from` gave to its lower transport to
\* incoming() of `to`
PipeDeliver(from, to) ==
    /\ from # to
    /\ inst[to].registered
    /\ ~inst[to].destroyed
    /\ CallerFree(inst[to])
    /\ PushReturns(inst[to])
    /\ env.delivered[from] < Len(inst[from].out)
    /\ inst' = [inst EXCEPT ![to] = incoming(@, inst[from].out[env.delivered[from] + 1])]
    /\ env' = [env EXCEPT !.delivered[from] = @ + 1]
    /\ UNCHANGED <<backend, wpc, wire>>

\* the client sends one plaintext byte once it is Connected
SendPing ==
    /\ inst["c"].state = "Connected"
    /\ inst["c"].sendCalls = 0
    /\ \E p \in Payloads :
          inst' = [inst EXCEPT !["c"] = send(backend, @, Some(<<p>>))]
    /\ UNCHANGED <<backend, wpc, wire, env>>

\* the owner of the client stops it after the server has received the byte
StopAfterPing ==
    /\ \E i \in 1..Len(inst["s"].up) :
          inst["s"].up[i] # Null /\ Len(inst["s"].up[i][1]) > 0
    /\ Stop("c")

NextPair ==
    \/ \E t \in Inst : Start(t)
    \/ \E t \in Inst : StartConnecting(t)
    \/ \E t \in Inst : StartHandshake(t)
    \/ \E t \in Inst : EnqueueRecv(t)
    \/ \E t \in Inst : Worker(t)
    \/ \E from \in Inst, to \in Inst : PipeDeliver(from, to)
    \/ SendPing
    \/ SendWrite("c")
    \/ StopAfterPing

\* what runs without the owners doing anything: the calls under way finish,
\* the worker pool runs the tasks it holds, the pipe delivers, and both owners
\* call start()
PairProgress ==
    \/ \E t \in Inst : Start(t)
    \/ \E t \in Inst : StartConnecting(t)
    \/ \E t \in Inst : StartHandshake(t)
    \/ \E t \in Inst : EnqueueRecv(t)
    \/ \E t \in Inst : Worker(t)
    \/ \E from \in Inst, to \in Inst : PipeDeliver(from, to)
    \/ SendWrite("c")

\* as long as one of these can run, one of them does
FairPair == WF_vars(PairProgress)

SpecPair == InitPair /\ [][NextPair]_vars /\ FairPair

(* ------------------------------------------------------------------ *)
(* Two instances of different backends driven by the same calls         *)
(* ------------------------------------------------------------------ *)

\* the backend an instance is compared with
OtherBackend(b) ==
    IF b = "gnutls" THEN "mbedtls" ELSE IF b = "mbedtls" THEN "openssl" ELSE "gnutls"

\* the backend of each of the two instances
TwinBackend(t) == IF t = "c" THEN backend ELSE OtherBackend(backend)

\* enqueueRecv run to its end by a caller that passed the test
Enqueue(s) == IF s.enqInc > 0 THEN EnqueueRecvCommit(s) ELSE s

\* TlsTransport::start run to its end with no other thread in between
startAll(b, s) ==
    Let1(start(b, startRegister(s)),
         LAMBDA s1 : IF b = "openssl" THEN startHandshake(b, s1) ELSE Enqueue(s1))

\* doRecv from the position r to its end
RECURSIVE RunFrom(_, _)
RunFrom(b, r) ==
    IF r.pc = "idle" THEN r.s
    ELSE IF r.pc = "hs" THEN RunFrom(b, doRecvHandshake(b, r.s))
    ELSE IF r.pc = "rd" THEN RunFrom(b, doRecvRecord(b, r.s))
    ELSE IF r.pc = "loop" THEN RunFrom(b, doRecvLoop(b, r.s))
    ELSE doRecvFinish(b, r.s)

\* one execution of doRecv, from its entry to its end
doRecvAll(b, s) == RunFrom(b, doRecvEnter(b, s, 1))

InitTwin ==
    /\ backend \in Backends
    /\ inst = [t \in Inst |-> InitInst("c")]
    /\ wpc = [w \in Workers |-> Idle]
    /\ wire \in Scripts
    /\ env = [InitEnv(FALSE) EXCEPT !.script = wire, !.extra = "empty"]

\* start() on both instances
TwinStart ==
    /\ \A t \in Inst : ~Started(inst[t])
    /\ inst' = [t \in Inst |-> startAll(TwinBackend(t), inst[t])]
    /\ UNCHANGED <<backend, wpc, wire, env>>

\* the same buffer is delivered to both instances
TwinIncoming ==
    /\ \A t \in Inst : inst[t].registered /\ PushReturns(inst[t])
    /\ ~env.closed
    /\ \E n \in 1..Min(MaxChunk, Len(wire)) :
          /\ inst' = [t \in Inst |->
                        Enqueue(incoming(inst[t], Some(SubSeq(wire, 1, n))))]
          /\ wire' = SubSeq(wire, n + 1, Len(wire))
    /\ UNCHANGED <<backend, wpc, env>>

\* a zero-length buffer is delivered to both instances, once
TwinEmpty ==
    /\ \A t \in Inst : inst[t].registered /\ PushReturns(inst[t])
    /\ ~env.closed
    /\ env.empties = 0
    /\ inst' = [t \in Inst |-> Enqueue(incoming(inst[t], Some(<<>>)))]
    /\ env' = [env EXCEPT !.empties = @ + 1]
    /\ UNCHANGED <<backend, wpc, wire>>

\* closed is delivered to both instances
TwinClosed ==
    /\ \A t \in Inst : inst[t].registered
    /\ ~env.closed
    /\ inst' = [t \in Inst |-> Enqueue(incoming(inst[t], Null))]
    /\ env' = [env EXCEPT !.closed = TRUE]
    /\ UNCHANGED <<backend, wpc, wire>>

\* stop() on both instances
TwinStop ==
    /\ \A t \in Inst : inst[t].startPc = "done"
    /\ env.stops < MaxStops
    /\ inst' = [t \in Inst |-> Enqueue(stop(inst[t]))]
    /\ env' = [env EXCEPT !.stops = @ + 1]
    /\ UNCHANGED <<backend, wpc, wire>>

\* the thread pool runs the Receive Task of both instances
TwinTask ==
    /\ \A t \in Inst : inst[t].tasks > 0
    /\ inst' = [t \in Inst |-> doRecvAll(TwinBackend(t), inst[t])]
    /\ UNCHANGED <<backend, wpc, wire, env>>

NextTwin ==
    \/ TwinStart
    \/ TwinIncoming
    \/ TwinEmpty
    \/ TwinClosed
    \/ TwinStop
    \/ TwinTask

SpecTwin == InitTwin /\ [][NextTwin]_vars

(* ------------------------------------------------------------------ *)
(* What is observed of an instance                                      *)
(* ------------------------------------------------------------------ *)

C == inst["c"]
S == inst["s"]

\* the plaintext records among the upward deliveries, in order
RECURSIVE Records(_)
Records(up) ==
    IF up = <<>> THEN <<>>
    ELSE IF Head(up) # Null /\ Len(Head(up)[1]) > 0
         THEN <<Head(up)[1][1]>> \o Records(Tail(up))
         ELSE Records(Tail(up))

RECURSIVE Count(_, _)
Count(seq, x) ==
    IF seq = <<>> THEN 0
    ELSE (IF Head(seq) = x THEN 1 ELSE 0) + Count(Tail(seq), x)

\* end-of-stream signals delivered upward
EosCount(s) == Count(s.up, Null)

\* zero-length buffers delivered upward
EmptyCount(s) == Count(s.up, Some(<<>>))

\* notifications of a terminal state
TerminalCount(s) == Count(s.notified, "Disconnected") + Count(s.notified, "Failed")

WasConnected(s) == Count(s.notified, "Connected") > 0

\* Disconnected-closed or Failed
Terminal(s) ==
    \/ s.state = "Failed"
    \/ (s.state = "Disconnected" /\ s.notified # <<>>)

\* the records a wire carries after its handshake
RECURSIVE WirePlaintext(_)
WirePlaintext(w) ==
    IF w = <<>> THEN <<>>
    ELSE IF IsHandshakeByte(Head(w)) THEN WirePlaintext(Tail(w))
    ELSE IF Len(w) >= 2 /\ IsRecordHead(w[1]) /\ IsRecordTail(w[2], w[1] - 10)
         THEN <<w[1] - 10>> \o WirePlaintext(Tail(Tail(w)))
         ELSE <<>>

\* the bytes of a sequence of message pointers, in order
RECURSIVE Flatten(_)
Flatten(mps) ==
    IF mps = <<>> THEN <<>>
    ELSE (IF Head(mps) = Null THEN <<>> ELSE Head(mps)[1]) \o Flatten(Tail(mps))

\* what the client can have sent
PayloadSeqs == {<<p>> : p \in Payloads}

IsPrefix(a, b) == Len(a) <= Len(b) /\ a = SubSeq(b, 1, Len(a))

\* nothing is scheduled, running or half-way through a call
Settled(s) ==
    /\ s.startPc = "done"
    /\ s.sendMsg = Null
    /\ s.tasks = 0
    /\ s.enqInc = 0
    /\ \A w \in Workers : wpc[w].pc = "idle"

(* ------------------------------------------------------------------ *)
(* Claims                                                               *)
(* ------------------------------------------------------------------ *)

\* C1: at most one execution of the body of doRecv is in progress for an
\* instance at any time, whatever start(), incoming() and stop() do.
C1_OneDoRecv ==
    \A t \in Inst :
        Cardinality({w \in Workers : wpc[w].pc # "idle" /\ wpc[w].t = t}) <= 1

\* a task is queued while another one is executing the body
C1_Witness ==
    /\ C.tasks > 0
    /\ \E w \in Workers : wpc[w].pc # "idle"
    /\ \E w \in Workers : wpc[w].pc = "idle"

\* C2: however many times stop() is called on a started instance, there is
\* one transition into a terminal state and at most one end-of-stream.
C2_StopIdempotent ==
    env.stops > 0 => (TerminalCount(C) <= 1 /\ EosCount(C) <= 1)

\* C3: a send() in a state other than Connected fails, hands nothing to the
\* lower transport and leaves the state as it is, whatever the payload.
C3_SendRejected ==
    [][\A t \in Inst :
         (inst'[t].sendCalls # inst[t].sendCalls /\ inst[t].state # "Connected")
         => /\ inst'[t].sendThrows = inst[t].sendThrows + 1
            /\ inst'[t].out = inst[t].out
            /\ inst'[t].mOutBio = inst[t].mOutBio
            /\ inst'[t].state = inst[t].state
            /\ inst'[t].notified = inst[t].notified]_vars

\* a send() has failed on an instance that was closed
C3_Witness ==
    /\ C.sendThrows > 0
    /\ C.state = "Disconnected"
    /\ C.notified # <<>>

\* C4: the plaintext records delivered upward are always the first records
\* of the wire, in order and once each, none of them before the observer was
\* told Connected; and when a valid wire has been delivered in non-empty
\* chunks, with no stop and no close, and all work is done, they are all
\* the records of the wire.
C4_RecordsInOrder ==
    /\ IsPrefix(Records(C.up), WirePlaintext(env.script))
    /\ (Records(C.up) # <<>> => WasConnected(C))
    /\ (/\ env.script = ValidWire /\ wire = <<>> /\ Settled(C)
        /\ env.stops = 0 /\ ~env.closed /\ env.empties = 0)
       => Records(C.up) = WirePlaintext(ValidWire)

\* C5: once Connected, a closed signal from the lower transport leads to
\* Disconnected, never to Failed, with one end-of-stream upward.
C5_ClosedAfterConnected ==
    (env.closedConnected /\ env.stops = 0)
    => (C.state # "Failed" /\ EosCount(C) <= 1)

\* C6: while Connected has never been reached, no plaintext record and no
\* end-of-stream is delivered upward and the only terminal state is Failed;
\* and once the input has ended or the engine has read a corrupt handshake
\* byte before Connected, and all work is done, the state is Failed.
C6_HandshakeFailure ==
    ~WasConnected(C)
    => /\ Records(C.up) = <<>>
       /\ EosCount(C) = 0
       /\ (Terminal(C) => C.state = "Failed")
       /\ ((Settled(C) /\ ~C.destroyed /\ (C.qStopped \/ Count(C.fed, 8) > 0))
           => C.state = "Failed")

\* C7: every zero-length buffer received from the lower transport goes
\* upward unchanged or is still waiting in the queue (or was refused by the
\* stopped queue), and none is handed to the engine as input.
C7_ZeroLengthBypass ==
    /\ ~C.fedEmpty
    /\ env.empties = EmptyCount(C) + Count(C.mIncomingQueue, <<>>) + C.refused

C9_PairConnects ==
    /\ <>(WasConnected(C) /\ WasConnected(S))
    /\ \A sent \in PayloadSeqs :
          (WirePlaintext(Flatten(C.out)) = sent)
          ~> IsPrefix(sent, Records(S.up))

\* C10: once the state is Disconnected-closed or Failed it never changes.
C10_TerminalFinal ==
    [][\A t \in Inst : Terminal(inst[t]) => inst'[t].state = inst[t].state]_vars

\* C11: a Receive Task never executes on a destroyed instance: while a task
\* is queued or executing, or a caller is about to enqueue one, the instance
\* is alive, and the destructor's stop() enqueues nothing.
C11_TaskHoldsInstance ==
    \A t \in Inst :
        inst[t].destroyed
        => /\ inst[t].tasks = 0
           /\ inst[t].enqInc = 0
           /\ inst[t].mRecvMutex = 0
           /\ \A w \in Workers : wpc[w].pc # "idle" => wpc[w].t # t

\* the owner has dropped its reference while a task is executing, and the
\* instance is alive
C11_Witness ==
    /\ C.owners = 0
    /\ ~C.destroyed
    /\ \E w \in Workers : wpc[w].pc # "idle" /\ wpc[w].t = "c"

\* C12: mPendingRecvCount is 0 or 1 in every reachable state.
C12_PendingCounterBinary ==
    \A t \in Inst : inst[t].mPendingRecvCount \in {0, 1}

\* the Receive Tasks of an instance that are executing
Running(t) == {w \in Workers : wpc[w].pc # "idle" /\ wpc[w].t = t}

\* C13: for one instance there is never more than one Receive Task that is
\* queued in the worker pool or running.
C13_OneTaskOutstanding ==
    \A t \in Inst : inst[t].tasks + Cardinality(Running(t)) <= 1

\* the owner's thread is inside a call of the engine: SSL_do_handshake of
\* start(), or the write of send()
OwnerInEngine(s) == s.startPc = "hs" \/ s.sendMsg # Null

\* a step of a Receive Task of t that calls the engine: the handshake, a
\* record read, a turn of the OpenSSL loop on a buffer, the close-notify
EngineStep(t) ==
    \E w \in Workers :
        /\ wpc[w].pc # "idle"
        /\ wpc[w].t = t
        /\ \/ DoRecvHandshake(w)
           \/ DoRecvRecord(w)
           \/ (inst[t].mIncomingQueue # <<>> /\ DoRecvLoop(w))
           \/ (backend # "mbedtls" /\ DoRecvFinish(w))

\* C14: no two operations on the TLS engine of an instance execute
\* concurrently: while the owner's thread is inside an engine call no
\* Receive Task calls the engine, and start() and send() are never inside
\* the engine together.
C14_EngineExclusive ==
    [][\A t \in Inst :
         /\ ~(inst[t].startPc = "hs" /\ inst[t].sendMsg # Null)
         /\ (OwnerInEngine(inst[t]) => ~EngineStep(t))]_vars

\* C16: a fatal record error while Connected ends in Disconnected, never in
\* Failed, with one end-of-stream upward.
C16_RecordErrorCloses ==
    (/\ env.script = BadRecordWire
     /\ env.stops = 0 /\ ~env.closed /\ env.empties = 0 /\ ~C.destroyed
     /\ WasConnected(C))
    => /\ C.state # "Failed"
       /\ EosCount(C) <= 1
       /\ ((Settled(C) /\ Count(C.fed, 8) > 0)
           => (C.state = "Disconnected" /\ EosCount(C) = 1))

\* the bytes the lower transport has delivered so far
Accepted == SubSeq(env.script, 1, Len(env.script) - Len(wire))

\* the bytes taken from the queue that the engine has not pulled yet: the
\* rest of the current message, or the content of mInBio (OpenSSL)
Unread(b, s) ==
    IF b = "openssl" THEN s.mInBio
    ELSE IF s.mIncomingMessage = Null THEN <<>>
    ELSE SubSeq(s.mIncomingMessage[1], s.mIncomingMessagePosition + 1,
                Len(s.mIncomingMessage[1]))

\* the bytes of the buffers of the queue, in order
RECURSIVE QueueBytes(_)
QueueBytes(q) == IF q = <<>> THEN <<>> ELSE Head(q) \o QueueBytes(Tail(q))

\* C17: stopping the queue discards nothing: when the Receive Task observes
\* the end of the input, the queue is drained, nothing taken from it is
\* unread, and every byte that was queued has been handed to the engine in
\* order.
C17_StopKeepsBuffers ==
    C.sawEof
    => /\ C.mIncomingQueue = <<>>
       /\ Unread(backend, C) = <<>>
       /\ IsPrefix(C.fed, env.script)
       /\ (C.refused = 0 => C.fed = Accepted)

\* the queue was stopped with bytes in it, the engine has read them all and
\* the task has then seen the end of the input
C17_Witness ==
    /\ C.sawEof
    /\ Len(C.fed) >= HsLen + 2
    /\ (env.stops > 0 \/ env.closed)
    /\ Terminal(C)

\* C18: the bytes pulled by the engine, followed by the bytes not yet
\* pulled, are the bytes of the queued buffers in push order, whatever the
\* sizes of the pulls and the number of Receive Tasks, and the cursor never
\* exceeds the size of the current message.
C18_PullsInOrder ==
    /\ IsPrefix(C.fed \o Unread(backend, C) \o QueueBytes(C.mIncomingQueue),
                env.script)
    /\ (C.refused = 0
        => C.fed \o Unread(backend, C) \o QueueBytes(C.mIncomingQueue) = Accepted)
    /\ (C.mIncomingMessage # Null
        => C.mIncomingMessagePosition <= Len(C.mIncomingMessage[1]))

\* a message has been read in part, after the handshake, with more buffers
\* behind it in the queue
C18_Witness ==
    /\ backend # "openssl"
    /\ C.mIncomingMessage # Null
    /\ C.mIncomingMessagePosition > 0
    /\ C.mIncomingMessagePosition < Len(C.mIncomingMessage[1])
    /\ Len(C.fed) > HsLen
    /\ C.mIncomingQueue # <<>>

\* C19: a Receive Task that has not turned to its terminal resolution, and
\* so can only end on WouldBlock, changes the state from Connecting to
\* Connected at most, sends no close-notify and delivers no end-of-stream;
\* the step that ends it changes none of them.
C19_WouldBlockFrame ==
    [][\A w \in Workers :
         (wpc[w].pc \in {"hs", "rd", "loop"} /\ wpc'[w].pc # "fin")
         => /\ \/ inst'[wpc[w].t].state = inst[wpc[w].t].state
               \/ (/\ inst[wpc[w].t].state = "Connecting"
                   /\ inst'[wpc[w].t].state = "Connected"
                   /\ wpc'[w].pc # "idle")
            /\ inst'[wpc[w].t].closeSent = inst[wpc[w].t].closeSent
            /\ EosCount(inst'[wpc[w].t]) = EosCount(inst[wpc[w].t])]_vars

\* a task has completed the handshake, delivered a record and ended on
\* WouldBlock: the instance rests in Connected
C19_Witness ==
    /\ C.state = "Connected"
    /\ Settled(C)
    /\ C.mRecvMutex = 0
    /\ Len(Records(C.up)) > 0
    /\ EosCount(C) = 0
    /\ ~C.closeSent

\* C20: no wakeup is lost: the instance never rests, alive and with no
\* Receive Task queued, running or about to be queued, in Connecting or
\* Connected with a queue that is non-empty or stopped.
C20_NoLostWakeup ==
    (/\ Settled(C)
     /\ C.mRecvMutex = 0
     /\ ~C.destroyed
     /\ C.state \in {"Connecting", "Connected"})
    => (C.mIncomingQueue = <<>> /\ ~C.qStopped)

\* C15: two instances of different backends, given the same calls of start,
\* incoming and stop and the same executions of the Receive Task on the same
\* bytes, have notified the same state transitions and delivered the same
\* messages upward.
C15_BackendsAgree ==
    /\ C.notified = S.notified
    /\ C.up = S.up

\* the terminal state that fits the history: Disconnected if Connected was
\* reached, Failed otherwise
Resolved(s) ==
    \/ (WasConnected(s) /\ s.state = "Disconnected")
    \/ (~WasConnected(s) /\ s.state = "Failed")

\* C21: with a fair worker pool, once stop() has been called on an instance
\* that is Connecting or Connected, the instance reaches the terminal state
\* that fits its history, and the Receive Tasks come to an end: a moment
\* follows at which none is queued or executing.
C21_StopTerminates ==
    /\ (env.stops > 0 /\ C.state \in {"Connecting", "Connected"}) ~> Resolved(C)
    /\ (env.stops > 0) ~> (C.tasks = 0 /\ C.enqInc = 0 /\ C.mRecvMutex = 0)

\* stop() was called on a connected instance, the task has read the end of
\* the input and closed the connection
C21_Witness ==
    /\ env.stops > 0
    /\ ~env.closed
    /\ C.sawEof
    /\ WasConnected(C)
    /\ C.state = "Disconnected"

====
